---- MODULE Spec2Model ----
(***************************************************************************)
(* Model of algorithms/export_kmz.py (ExportKMZAlgorithm): the tile-budget  *)
(* solver _scale_for_tile_cap, and processAlgorithm's planning, tiling,     *)
(* per-tile constraint enforcement and KMZ packaging.                       *)
(*                                                                         *)
(* Numbers.  The solver's lo/hi/mid are dyadic rationals k / 2^40 (forty    *)
(* halvings of [0,1]); a double holds them exactly.  They are kept here as  *)
(* two 20-bit limbs so that no intermediate value leaves 32 bits, and the   *)
(* products W*mid, W*s are computed exactly (integer part, the 1/2 bit and  *)
(* a "more below" flag), which is all that ceil and round look at.          *)
(* Geographic coordinates are exact rationals num/den.                      *)
(***************************************************************************)
EXTENDS Integers, Sequences, FiniteSets, TLC

\* ------------------------------------------------------------------ constants
MAX_PIXELS == 1000000

MAX_BYTES == 3 * 1024 * 1024

\* int(math.ceil(math.sqrt(MAX_PIXELS)))
TILE_SIDE == CHOOSE n \in 1..2000 : n * n >= MAX_PIXELS /\ (n - 1) * (n - 1) < MAX_PIXELS

DEVICE_LIMITS == <<100, 500>>

\* index of 'Custom' in DEVICES
CUSTOM_IX == 2

\* defaultValue of CUSTOM_CAP
CUSTOM_DEFAULT == 250

\* range(40) in _scale_for_tile_cap
ITERATIONS == 40

\* the positive floor 1e-6 of the returned scale, as 1 / SCALE_FLOOR_DEN
SCALE_FLOOR_DEN == 1000000

\* the shrink loop's floor, 64*64 pixels
FLOOR_AREA == 64 * 64

\* ------------------------------------------------------------------ bounds
\* the Custom tile caps tried are -1 .. MaxCustom
MaxCustom == 12

\* ------------------------------------------------------------------ arithmetic
Max(a, b) == IF a >= b THEN a ELSE b

Min(a, b) == IF a <= b THEN a ELSE b

\* math.ceil(n / float(d)) for integers n >= 0, d > 0
CeilDivInt(n, d) == (n + d - 1) \div d

LimbBits == ITERATIONS \div 2

Limb == 2 ^ LimbBits

\* a dyadic x = (a * Limb + b) / 2^ITERATIONS in [0, 1]
FxZero == [a |-> 0, b |-> 0]

FxOne == [a |-> Limb, b |-> 0]

FxLess(x, y) == x.a < y.a \/ (x.a = y.a /\ x.b < y.b)

\* (x + y) / 2.0, exact while the sum is even in units of 2^-ITERATIONS
FxMid(x, y) ==
  LET sb == x.b + y.b
      sa == x.a + y.a + (sb \div Limb)
      b0 == sb % Limb
  IN  [a |-> sa \div 2, b |-> (b0 + (sa % 2) * Limb) \div 2]

\* forty bits are four digits of base 2^10
Base == 2 ^ (ITERATIONS \div 4)

\* n * x exactly, for 0 <= n < 2^30: int + half/2 + (something in (0,1/2) iff rest).
\* Schoolbook product of n's and x's base-2^10 digits: the four low digits of the
\* product are its fraction, the rest its integer part
MulBits(n, x) ==
  LET n0 == n % Base
      n1 == (n \div Base) % Base
      n2 == n \div (Base * Base)
      x0 == x.b % Base
      x1 == x.b \div Base
      x2 == x.a % Base
      x3 == x.a \div Base
      t0 == n0 * x0
      t1 == n0 * x1 + n1 * x0 + (t0 \div Base)
      t2 == n0 * x2 + n1 * x1 + n2 * x0 + (t1 \div Base)
      t3 == n0 * x3 + n1 * x2 + n2 * x1 + (t2 \div Base)
      p3 == t3 % Base
  IN  [int  |-> (t3 \div Base) + n1 * x3 + n2 * x2 + n2 * x3 * Base,
       half |-> p3 \div (Base \div 2),
       rest |-> p3 % (Base \div 2) # 0 \/ t2 % Base # 0 \/ t1 % Base # 0 \/ t0 % Base # 0]

\* the float product n * x for a dyadic x
FxTimes(n, x) == MulBits(n, x)

\* the product n * 1e-6
FloorTimes(n) ==
  LET q == n % SCALE_FLOOR_DEN
  IN  [int |-> n \div SCALE_FLOOR_DEN,
       half |-> IF 2 * q >= SCALE_FLOOR_DEN THEN 1 ELSE 0,
       rest |-> (2 * q) % SCALE_FLOOR_DEN # 0]

\* math.ceil(p / float(d)) for an exact product p
CeilDiv(p, d) ==
  IF p.half = 0 /\ ~p.rest THEN (p.int + d - 1) \div d ELSE (p.int \div d) + 1

\* int(round(p)): Python 3 rounds halves to even
Round(p) ==
  IF p.half = 1 /\ p.rest THEN p.int + 1
  ELSE IF p.half = 1 THEN p.int + (p.int % 2)
  ELSE p.int

\* the largest multiple of 2^-ITERATIONS below 1e-6, in units of 2^-ITERATIONS:
\* floor(Base^4 / SCALE_FLOOR_DEN) by long division, a base-2^10 digit at a time
FloorUnits ==
  LET r2 == (Base * Base) % SCALE_FLOOR_DEN
      r1 == (r2 * Base) % SCALE_FLOOR_DEN
  IN  (((Base * Base) \div SCALE_FLOOR_DEN) * Base + ((r2 * Base) \div SCALE_FLOOR_DEN)) * Base
        + ((r1 * Base) \div SCALE_FLOOR_DEN)

\* x < 1e-6 (1e-6 is no multiple of 2^-ITERATIONS, so they are never equal)
BelowFloor(x) == x.a <= FloorUnits \div Limb /\ x.a * Limb + x.b <= FloorUnits

\* ------------------------------------------------------------------ solver
\* max(1, cols) * max(1, rows) <= cap at scale x
CapAdmits(Wd, Ht, tile_side, cap, x) ==
  LET cols_ == CeilDiv(FxTimes(Wd, x), tile_side)
      rows_ == CeilDiv(FxTimes(Ht, x), tile_side)
  IN  Max(1, cols_) * Max(1, rows_) <= cap

\* mutant: the two branches of the search swapped
SearchStepSwapped(Wd, Ht, tile_side, cap, l, h) ==
  LET mid == FxMid(l, h)
  IN  IF CapAdmits(Wd, Ht, tile_side, cap, mid)
      THEN [lo |-> l, hi |-> mid]
      ELSE [lo |-> mid, hi |-> h]

\* one pass of the binary search's body
SearchStep(Wd, Ht, tile_side, cap, l, h) ==
  LET mid == FxMid(l, h)
  IN  IF CapAdmits(Wd, Ht, tile_side, cap, mid)
      THEN [lo |-> mid, hi |-> h]
      ELSE [lo |-> l, hi |-> mid]

\* return max(1e-6, lo)
SearchResult(l) == [floor |-> BelowFloor(l), fx |-> l]

\* n * s for a returned scale s
ScaleTimes(n, sc) == IF sc.floor THEN FloorTimes(n) ELSE FxTimes(n, sc.fx)


\* ------------------------------------------------------------------ inputs
\* raster layers: pixel size and WGS84 extent (integer units) of the layer
Layers ==
  { [width |-> 1,          height |-> 1,     north |-> 10,  south |-> -20, east |-> -30, west |-> -70],
    [width |-> 1000,       height |-> 1000,  north |-> 50,  south |-> 40,  east |-> 20,  west |-> 10],
    [width |-> 2501,       height |-> 1999,  north |-> 50,  south |-> 40,  east |-> 20,  west |-> 10],
    [width |-> 2500,       height |-> 70,    north |-> -5,  south |-> -6,  east |-> 179, west |-> 100],
    [width |-> 4000,       height |-> 3000,  north |-> 48,  south |-> 45,  east |-> 11,  west |-> 7],
    [width |-> 11000,      height |-> 10000, north |-> 60,  south |-> 50,  east |-> 5,   west |-> -6],
    [width |-> 23000,      height |-> 22000, north |-> 22,  south |-> 0,   east |-> 23,  west |-> 0],
    [width |-> 1050000000, height |-> 1001,  north |-> 1,   south |-> 0,   east |-> 150, west |-> -150] }

Customs == (-1) .. MaxCustom

\* len(jpg) as the encoder may return it: at the byte cap, or over it
EncodedSizes == {MAX_BYTES, MAX_BYTES + 1}

\* tile sizes handed to the enforcement steps on their own
MaxPad == 1

BaseTiles ==
  { <<1, 1>>, <<64, 64>>, <<65, 64>>, <<70, 70>>, <<4097, 1>>, <<60, 1000>>,
    <<1000, 1000>>, <<1001, 1000>>, <<2000, 1500>>, <<2000, 600>> }

TileSizes == { [w |-> t[1] + d, h |-> t[2]] : t \in BaseTiles, d \in 0 .. MaxPad }

\* ------------------------------------------------------------------ state
VARIABLES
  pc,        \* position in processAlgorithm
  layer,     \* parameter INPUT
  dev_ix,    \* parameter DEVICE
  custom,    \* parameter CUSTOM_CAP
  tile_cap,
  lo, hi, it,            \* _scale_for_tile_cap's interval and loop counter
  s,                     \* the returned scale
  newW, newH, cols, rows, tiles,
  base_img,              \* size of the resampled image
  tile_w, tile_h,
  r, c, idx,             \* the export loop's counters
  tile, jpg, shrinks,    \* the current tile's size, len(jpg), and shrink loop passes
  overlays,
  skipped,               \* passes through the degenerate branch
  kml, zip               \* doc.kml's content and the archive's entry names

vars == <<pc, layer, dev_ix, custom, tile_cap, lo, hi, it, s, newW, newH, cols, rows,
          tiles, base_img, tile_w, tile_h, r, c, idx, tile, jpg, shrinks, overlays,
          skipped, kml, zip>>

W == layer.width

H == layer.height

north0 == layer.north

south0 == layer.south

east0 == layer.east

west0 == layer.west

NoTile == [w |-> 0, h |-> 0]

NoScale == [floor |-> FALSE, fx |-> FxZero]

NoKml == [description_tiles |-> 0, overlays |-> <<>>]

Blank ==
  /\ tile_cap = 0 /\ lo = FxZero /\ hi = FxZero /\ it = 0 /\ s = NoScale
  /\ newW = 0 /\ newH = 0 /\ cols = 0 /\ rows = 0 /\ tiles = 0
  /\ base_img = [width |-> 0, height |-> 0] /\ tile_w = 0 /\ tile_h = 0
  /\ r = 0 /\ c = 0 /\ idx = 0 /\ jpg = 0 /\ shrinks = 0
  /\ overlays = <<>> /\ skipped = 0 /\ kml = NoKml /\ zip = <<>>

Init ==
  /\ pc = "start"
  /\ layer \in Layers
  /\ \/ dev_ix \in {0, 1} /\ custom = CUSTOM_DEFAULT
     \/ dev_ix = CUSTOM_IX /\ custom \in Customs
  /\ tile = NoTile
  /\ Blank

\* ------------------------------------------------------------------ planning
\* mutant: the Custom cap taken as given
TileCapUnclamped(d, cu) ==
  IF d = CUSTOM_IX THEN cu
  ELSE DEVICE_LIMITS[Max(0, Min(d, Len(DEVICE_LIMITS) - 1)) + 1]

TileCap(d, cu) ==
  IF d = CUSTOM_IX THEN Max(1, cu)
  ELSE DEVICE_LIMITS[Max(0, Min(d, Len(DEVICE_LIMITS) - 1)) + 1]

\* mutant: int() in place of int(round())
NewSizeTruncated(n, sc) == Max(1, ScaleTimes(n, sc).int)

\* max(1, int(round(n * s)))
NewSize(n, sc) == Max(1, Round(ScaleTimes(n, sc)))

\* int(math.ceil(n / float(TILE_SIDE)))
GridCount(n) == CeilDivInt(n, TILE_SIDE)

Begin ==
  /\ pc = "start"
  /\ tile_cap' = TileCap(dev_ix, custom)
  /\ lo' = FxZero /\ hi' = FxOne /\ it' = 0
  /\ pc' = "solve"
  /\ UNCHANGED <<layer, dev_ix, custom, s, newW, newH, cols, rows, tiles, base_img,
                 tile_w, tile_h, r, c, idx, tile, jpg, shrinks, overlays, skipped, kml, zip>>

SolveStep ==
  /\ pc = "solve" /\ it < ITERATIONS
  /\ LET n == SearchStep(W, H, TILE_SIDE, tile_cap, lo, hi)
     IN  lo' = n.lo /\ hi' = n.hi
  /\ it' = it + 1
  /\ UNCHANGED <<pc, layer, dev_ix, custom, tile_cap, s, newW, newH, cols, rows, tiles,
                 base_img, tile_w, tile_h, r, c, idx, tile, jpg, shrinks, overlays,
                 skipped, kml, zip>>

SolveReturn ==
  /\ pc = "solve" /\ it = ITERATIONS
  /\ s' = SearchResult(lo)
  /\ pc' = "plan"
  /\ UNCHANGED <<layer, dev_ix, custom, tile_cap, lo, hi, it, newW, newH, cols, rows, tiles,
                 base_img, tile_w, tile_h, r, c, idx, tile, jpg, shrinks, overlays,
                 skipped, kml, zip>>

Plan ==
  /\ pc = "plan"
  /\ newW' = NewSize(W, s) /\ newH' = NewSize(H, s)
  /\ cols' = GridCount(newW') /\ rows' = GridCount(newH')
  /\ tiles' = cols' * rows'
  /\ pc' = "render"
  /\ UNCHANGED <<layer, dev_ix, custom, tile_cap, lo, hi, it, s, base_img, tile_w, tile_h,
                 r, c, idx, tile, jpg, shrinks, overlays, skipped, kml, zip>>

\* int(math.ceil(n / float(k))): the tile's side for k tiles over n pixels
TileSpan(n, k) == CeilDivInt(n, k)

\* gdal.Translate(width=newW, height=newH), Image.fromarray, tile_w, tile_h
Render ==
  /\ pc = "render"
  /\ base_img' = [width |-> newW, height |-> newH]
  /\ tile_w' = TileSpan(base_img'.width, cols)
  /\ tile_h' = TileSpan(base_img'.height, rows)
  /\ overlays' = <<>> /\ idx' = 0 /\ r' = 0 /\ c' = 0
  /\ pc' = "tile"
  /\ UNCHANGED <<layer, dev_ix, custom, tile_cap, lo, hi, it, s, newW, newH, cols, rows,
                 tiles, tile, jpg, shrinks, skipped, kml, zip>>

\* ------------------------------------------------------------------ tiling
\* mutant: the column origin one tile too far
TileX0Shifted(col, tw) == (col + 1) * tw

TileX0(col, tw) == col * tw

TileY0(row, th) == row * th

TileX1(x0, tw, width) == Min(width, x0 + tw)

TileY1(y0, th, height) == Min(height, y0 + th)

\* the crop box of grid cell (row, col)
CropBox(row, col) ==
  LET x0 == TileX0(col, tile_w)
      y0 == TileY0(row, tile_h)
  IN  [x0 |-> x0, y0 |-> y0,
       x1 |-> TileX1(x0, tile_w, base_img.width),
       y1 |-> TileY1(y0, tile_h, base_img.height)]

Degenerate(box) == box.x0 >= box.x1 \/ box.y0 >= box.y1

\* for r in range(rows): for c in range(cols)
NextCell(row, col) == IF col + 1 < cols THEN <<row, col + 1>> ELSE <<row + 1, 0>>

\* west0 + lon_span * (x / float(width)), as the rational num / den
Lon(x, width) == [num |-> west0 * width + (east0 - west0) * x, den |-> width]

\* mutant: latitude growing with the pixel row
LatUnflipped(y, height) == [num |-> south0 * height + (north0 - south0) * y, den |-> height]

\* north0 - lat_span * (y / float(height)): the Y axis is flipped
Lat(y, height) == [num |-> north0 * height - (north0 - south0) * y, den |-> height]

\* largest k with k * k <= n
Isqrt(n) == CHOOSE k \in 0 .. Min(n, 46339) : k * k <= n /\ (k + 1) * (k + 1) > n

\* mutant: no 1 MP clamp
MPResizeSkipped(t) == t

\* scale_mp = min(1.0, sqrt(MAX_PIXELS / max(1, tw*th))); resize when scale_mp < 1.
\* int(tw * scale_mp) is floor(sqrt(MAX_PIXELS * tw / th))
MPResize(t) ==
  IF Max(1, t.w * t.h) > MAX_PIXELS
  THEN [w |-> Max(1, Isqrt((MAX_PIXELS * t.w) \div t.h)),
        h |-> Max(1, Isqrt((MAX_PIXELS * t.h) \div t.w))]
  ELSE t

\* mutant: "or" in place of "and"
ShrinkCondEither(len, t) == len > MAX_BYTES \/ t.w * t.h > FLOOR_AREA

\* while len(jpg) > MAX_BYTES and tile.width * tile.height > 64*64
ShrinkCond(len, t) == len > MAX_BYTES /\ t.w * t.h > FLOOR_AREA

\* int(n * 0.9)
NineTenths(n) == (9 * n) \div 10

\* tile.resize((max(1, int(w*0.9)), max(1, int(h*0.9))))
Shrink(t) == [w |-> Max(1, NineTenths(t.w)), h |-> Max(1, NineTenths(t.h))]

\* the decimal digits of n
RECURSIVE Digits(_)
Digits(n) == IF n < 10 THEN <<n>> ELSE Append(Digits(n \div 10), n % 10)

\* f"{n:03d}": zero-padded to at least three digits
Fmt03d(n) ==
  LET d == Digits(n)
  IN  IF Len(d) >= 3 THEN d ELSE [i \in 1 .. 3 - Len(d) |-> 0] \o d

\* f"image_{idx:03d}.jpg"
ImageName(n) == [stem |-> "image_", num |-> Fmt03d(n), ext |-> ".jpg"]

DocName == [stem |-> "doc", num |-> <<>>, ext |-> ".kml"]

\* crop, 1 MP clamp and first encode of cell (r, c); or the degenerate branch
CropTile ==
  /\ pc = "tile" /\ r < rows
  /\ IF Degenerate(CropBox(r, c))
     THEN /\ idx' = idx + 1
          /\ skipped' = skipped + 1
          /\ r' = NextCell(r, c)[1] /\ c' = NextCell(r, c)[2]
          /\ UNCHANGED <<pc, tile, jpg, shrinks>>
     ELSE /\ tile' = MPResize([w |-> CropBox(r, c).x1 - CropBox(r, c).x0,
                               h |-> CropBox(r, c).y1 - CropBox(r, c).y0])
          /\ \E len \in EncodedSizes : jpg' = len
          /\ shrinks' = 0
          /\ pc' = "enforce"
          /\ UNCHANGED <<idx, skipped, r, c>>
  /\ UNCHANGED <<layer, dev_ix, custom, tile_cap, lo, hi, it, s, newW, newH, cols, rows,
                 tiles, base_img, tile_w, tile_h, overlays, kml, zip>>

\* one pass of the shrink loop: resize by 0.9 and re-encode
ShrinkTile ==
  /\ pc = "enforce" /\ ShrinkCond(jpg, tile)
  /\ tile' = Shrink(tile)
  /\ \E len \in EncodedSizes : jpg' = len
  /\ shrinks' = shrinks + 1
  /\ UNCHANGED <<pc, layer, dev_ix, custom, tile_cap, lo, hi, it, s, newW, newH, cols, rows,
                 tiles, base_img, tile_w, tile_h, r, c, idx, overlays, skipped, kml, zip>>

\* the overlay of cell (row, col) under index n. crop records the pixel box the
\* tile was cut from; the encoded payload is not kept
Overlay(n, row, col) ==
  LET box == CropBox(row, col)
  IN  [fname |-> ImageName(n), crop |-> box,
       west  |-> Lon(box.x0, base_img.width),
       east  |-> Lon(box.x1, base_img.width),
       south |-> Lat(box.y1, base_img.height),
       north |-> Lat(box.y0, base_img.height)]

\* the loop has ended: compute the tile's box, append it, idx += 1
EmitTile ==
  /\ pc = "enforce" /\ ~ShrinkCond(jpg, tile)
  /\ overlays' = Append(overlays, Overlay(idx, r, c))
  /\ idx' = idx + 1
  /\ r' = NextCell(r, c)[1] /\ c' = NextCell(r, c)[2]
  /\ tile' = NoTile /\ jpg' = 0 /\ shrinks' = 0
  /\ pc' = "tile"
  /\ UNCHANGED <<layer, dev_ix, custom, tile_cap, lo, hi, it, s, newW, newH, cols, rows,
                 tiles, base_img, tile_w, tile_h, skipped, kml, zip>>

GroundOverlay(o) ==
  [href |-> o.fname, north |-> o.north, south |-> o.south, east |-> o.east, west |-> o.west]

\* build doc.kml and write the archive: doc.kml first, then the tiles
Build ==
  /\ pc = "tile" /\ r >= rows
  /\ kml' = [description_tiles |-> tiles,
             overlays |-> [i \in 1 .. Len(overlays) |-> GroundOverlay(overlays[i])]]
  /\ zip' = <<DocName>> \o [i \in 1 .. Len(overlays) |-> overlays[i].fname]
  /\ pc' = "done"
  /\ UNCHANGED <<layer, dev_ix, custom, tile_cap, lo, hi, it, s, newW, newH, cols, rows,
                 tiles, base_img, tile_w, tile_h, r, c, idx, tile, jpg, shrinks, overlays,
                 skipped>>

Next ==
  \/ Begin
  \/ SolveStep
  \/ SolveReturn
  \/ Plan
  \/ Render
  \/ CropTile
  \/ ShrinkTile
  \/ EmitTile
  \/ Build

Spec == Init /\ [][Next]_vars

\* ------------------------------------------------------------------ enforcement alone
\* the per-tile steps (1 MP clamp, encode, shrink loop) applied to a tile of any size
EnforceInit ==
  /\ pc = "enforce_in"
  /\ layer = [width |-> 1, height |-> 1, north |-> 0, south |-> 0, east |-> 0, west |-> 0]
  /\ dev_ix = 0 /\ custom = CUSTOM_DEFAULT
  /\ tile \in TileSizes
  /\ Blank

EnforceStart ==
  /\ pc = "enforce_in"
  /\ tile' = MPResize(tile)
  /\ \E len \in EncodedSizes : jpg' = len
  /\ shrinks' = 0
  /\ pc' = "enforce"
  /\ UNCHANGED <<layer, dev_ix, custom, tile_cap, lo, hi, it, s, newW, newH, cols, rows,
                 tiles, base_img, tile_w, tile_h, r, c, idx, overlays, skipped, kml, zip>>

EnforceReturn ==
  /\ pc = "enforce" /\ ~ShrinkCond(jpg, tile)
  /\ pc' = "returned"
  /\ UNCHANGED <<layer, dev_ix, custom, tile_cap, lo, hi, it, s, newW, newH, cols, rows,
                 tiles, base_img, tile_w, tile_h, r, c, idx, tile, jpg, shrinks, overlays,
                 skipped, kml, zip>>

EnforceNext ==
  \/ EnforceStart
  \/ ShrinkTile
  \/ EnforceReturn

EnforceSpec == EnforceInit /\ [][EnforceNext]_vars

\* the code is sequential: a step that can be taken is taken
EnforceLive == EnforceSpec /\ WF_vars(EnforceNext)

\* ------------------------------------------------------------------ properties
Area(t) == t.w * t.h

\* the grid has been computed
Planned == pc \in {"render", "tile", "enforce", "done"}

\* the tile grid the full-resolution raster needs
FullGrid == GridCount(W) * GridCount(H)

RatEq(p, n) == p.num = n * p.den

\* C1: the grid cols*rows used by processAlgorithm, and so the number of tile
\* images in the package, never exceeds the tile cap.
C1_GridWithinCap ==
  /\ Planned => cols * rows <= tile_cap
  /\ pc = "done" => Len(zip) - 1 <= tile_cap

\* C2: the returned scale s satisfies ceil(W*s/tileSide) * ceil(H*s/tileSide) <= cap
\* and lies in (0, 1], also when it is the floor 1e-6.
C2_SolverFeasible ==
  pc = "plan" =>
    /\ CeilDiv(ScaleTimes(W, s), TILE_SIDE) * CeilDiv(ScaleTimes(H, s), TILE_SIDE) <= tile_cap
    /\ s.floor \/ (FxLess(FxZero, s.fx) /\ ~FxLess(FxOne, s.fx))

\* hi - lo = 2^-k
WidthIs(l, h, k) ==
  IF k <= LimbBits
  THEN h.b = l.b /\ h.a - l.a = 2 ^ (LimbBits - k)
  ELSE (h.a - l.a) * Limb + h.b - l.b = 2 ^ (ITERATIONS - k)

\* x + 2^-ITERATIONS
FxSucc(x) == IF x.b + 1 = Limb THEN [a |-> x.a + 1, b |-> 0] ELSE [a |-> x.a, b |-> x.b + 1]

\* scales in (0, 1] tried against the returned one: the multiples of 1/256, and
\* the value one step above hi
Probes ==
  { [a |-> k * (Limb \div 256), b |-> 0] : k \in 1 .. 256 }
    \cup (IF hi = FxOne THEN {} ELSE {FxSucc(hi)})

C4_NoDownsample ==
  /\ (Planned /\ FullGrid <= tile_cap) =>
       /\ newW = W /\ newH = H
       /\ cols = GridCount(W) /\ rows = GridCount(H)
  /\ (pc = "done" /\ W = 4000 /\ H = 3000 /\ tile_cap = 12) =>
       /\ cols = 4 /\ rows = 3
       /\ Len(kml.overlays) = 12
       /\ zip = <<DocName>> \o [i \in 1 .. 12 |-> ImageName(i - 1)]
       /\ zip[2].num = <<0, 0, 0>> /\ zip[13].num = <<0, 1, 1>>

C4_Witness ==
  /\ pc = "done" /\ W = 4000 /\ H = 3000 /\ tile_cap = 12
  /\ Len(zip) = 13 /\ newW = 4000 /\ newH = 3000

\* C5: with tile cap 1 the grid is 1 x 1 for any raster, and the package holds
\* exactly one tile, whose LatLonBox is the overall box.
C5_CapOneSingleTile ==
  /\ (Planned /\ tile_cap = 1) => cols = 1 /\ rows = 1
  /\ (pc = "done" /\ tile_cap = 1) =>
       /\ Len(kml.overlays) = 1 /\ Len(zip) = 2
       /\ RatEq(kml.overlays[1].west, west0) /\ RatEq(kml.overlays[1].east, east0)
       /\ RatEq(kml.overlays[1].north, north0) /\ RatEq(kml.overlays[1].south, south0)

\* the crop boxes of the tiles emitted so far
Crops == { overlays[i].crop : i \in 1 .. Len(overlays) }

Disjoint(p, q) == p.x1 <= q.x0 \/ q.x1 <= p.x0 \/ p.y1 <= q.y0 \/ q.y1 <= p.y0

\* every box is continued by a box to its right and a box below it, up to the
\* image's edges, starting from the origin: with Disjoint, an exact cover
Covers(boxes, width, height) ==
  /\ \E p \in boxes : p.x0 = 0 /\ p.y0 = 0
  /\ \A p \in boxes :
       /\ p.x1 < width =>
            \E q \in boxes : q.x0 = p.x1 /\ q.y0 = p.y0 /\ q.y1 = p.y1
       /\ p.y1 < height =>
            \E q \in boxes : q.y0 = p.y1 /\ q.x0 = p.x0 /\ q.x1 = p.x1

\* C6: the emitted tiles' pixel boxes cover the image exactly, with no gap and
\* no overlap; their geographic boxes tile the overall box with row 0
\* northernmost: north = north0 at y0 = 0, south = south0 at y1 = height, a
\* tile's south is the north of the tile below it, north >= south, east >= west.
C6_TilePartition ==
  /\ \A i \in 1 .. Len(overlays) :
       LET o == overlays[i]
       IN  /\ 0 <= o.crop.x0 /\ o.crop.x0 < o.crop.x1 /\ o.crop.x1 <= base_img.width
           /\ 0 <= o.crop.y0 /\ o.crop.y0 < o.crop.y1 /\ o.crop.y1 <= base_img.height
           /\ o.crop.x1 - o.crop.x0 <= tile_w /\ o.crop.y1 - o.crop.y0 <= tile_h
           /\ o.crop.y0 = 0 => RatEq(o.north, north0)
           /\ o.crop.y1 = base_img.height => RatEq(o.south, south0)
           /\ o.crop.x0 = 0 => RatEq(o.west, west0)
           /\ o.crop.x1 = base_img.width => RatEq(o.east, east0)
           /\ o.north.den = o.south.den /\ o.north.num >= o.south.num
           /\ o.east.den = o.west.den /\ o.east.num >= o.west.num
  /\ pc = "done" =>
       /\ Cardinality(Crops) = Len(overlays)
       /\ \A p, q \in Crops : p # q => Disjoint(p, q)
       /\ Covers(Crops, base_img.width, base_img.height)
       /\ \A i, j \in 1 .. Len(overlays) :
            /\ overlays[i].crop.y1 = overlays[j].crop.y0 =>
                 overlays[i].south = overlays[j].north
            /\ overlays[i].crop.x1 = overlays[j].crop.x0 =>
                 overlays[i].east = overlays[j].west
            /\ overlays[i].crop.y0 < overlays[j].crop.y0 =>
                 overlays[i].north.num > overlays[j].north.num

C6_Witness ==
  /\ pc = "done" /\ cols > 1 /\ rows > 1
  /\ base_img.width % tile_w # 0 /\ base_img.height % tile_h # 0
  /\ Len(overlays) = cols * rows
  /\ RatEq(overlays[1].north, north0) /\ RatEq(overlays[Len(overlays)].south, south0)

\* C7 as stated: the shrink loop ends after boundedly many passes, and the tile
\* it returns after shrinking is not smaller than the 64 x 64 floor.
C7_ReturnsAtLeastFloor ==
  /\ pc \in {"enforce", "returned"} => shrinks + Area(tile) <= MAX_PIXELS
  /\ (pc = "returned" /\ shrinks > 0) => Area(tile) >= 64 * 64

\* C7 as amended: every pass of the shrink loop starts from an oversize encoding
\* and an area above 64*64 and strictly decreases the area, keeping both sides
\* >= 1, so the passes are bounded (passes + area never exceeds the 1 MP the loop
\* starts from at most) and the loop returns; the tile returned may be smaller
\* than 64 x 64.
C7_ShrinkTerminates ==
  /\ <>(pc = "returned")
  /\ [](pc \in {"enforce", "returned"} => shrinks + Area(tile) <= MAX_PIXELS)
  /\ [][shrinks' = shrinks + 1 =>
          /\ Area(tile) > 64 * 64 /\ jpg > MAX_BYTES
          /\ Area(tile') < Area(tile)
          /\ tile'.w >= 1 /\ tile'.h >= 1
          /\ 10 * tile'.w > 9 * tile.w - 10 /\ 10 * tile'.h > 9 * tile.h - 10]_vars

C7_Witness ==
  /\ pc = "returned" /\ shrinks > 0
  /\ Area(tile) < 64 * 64 /\ jpg > MAX_BYTES

\* C8: a finished tile has at most 1,000,000 pixels, and its encoded size is at
\* most 3 MiB unless its area is at or below 64*64; the resize to the pixel cap
\* never upscales, and leaves a tile within the cap as it is.
C8_TileLimits ==
  /\ [](pc = "returned" =>
          /\ Area(tile) <= 1000000
          /\ jpg <= 3 * 1024 * 1024 \/ Area(tile) <= 64 * 64)
  /\ [][pc = "enforce_in" =>
          /\ tile'.w <= tile.w /\ tile'.h <= tile.h
          /\ Area(tile) <= 1000000 => tile' = tile]_vars

C8_Witness ==
  /\ pc = "returned" /\ shrinks = 1
  /\ tile = [w |-> 1038, h |-> 779] /\ jpg = MAX_BYTES

\* C9 as stated: with device Custom and a tile cap < 1 the run is rejected: the
\* raster is never resampled and no output is written.
C9_InvalidCapRejected ==
  (dev_ix = CUSTOM_IX /\ custom < 1) =>
    /\ pc \notin {"tile", "enforce", "done"}
    /\ zip = <<>>

\* C9 as amended: with device Custom and a tile cap < 1 processAlgorithm raises
\* nothing: it goes on with the cap clamped to 1, and the package it writes holds
\* doc.kml and every tile of the grid.
C9_InvalidCapClamped ==
  (dev_ix = CUSTOM_IX /\ custom < 1) =>
    /\ pc # "start" => tile_cap = 1
    /\ pc = "done" => Len(zip) = cols * rows + 1 /\ Len(zip) >= 2

C9_Witness ==
  /\ dev_ix = CUSTOM_IX /\ custom < 1
  /\ pc = "done" /\ zip # <<>> /\ base_img.width >= 1

\* C10: the degenerate branch is never taken, so the GroundOverlay entries and
\* the JPEG files are cols*rows in number (the count in the description), the
\* tile of cell (r, c) carries index r*cols + c, and the archive lists doc.kml
\* and then image_000 .. image_(cols*rows-1) in scan order, no index missing.
C10_NoDegenerateTile ==
  /\ skipped = 0
  /\ pc \in {"tile", "enforce"} => idx = r * cols + c /\ Len(overlays) = idx
  /\ Len(overlays) > 0 =>
       LET n == Len(overlays)
           o == overlays[n]
       IN  /\ o.fname = ImageName(n - 1)
           /\ o.crop.x0 = ((n - 1) % cols) * tile_w
           /\ o.crop.y0 = ((n - 1) \div cols) * tile_h
  /\ pc = "done" =>
       /\ Len(kml.overlays) = cols * rows
       /\ kml.description_tiles = Len(kml.overlays)
       /\ zip = <<DocName>> \o [i \in 1 .. cols * rows |-> ImageName(i - 1)]
       /\ \A i \in 1 .. Len(kml.overlays) : kml.overlays[i].href = zip[i + 1]
       /\ Cardinality({ zip[i] : i \in 1 .. Len(zip) }) = Len(zip)

C10_Witness ==
  /\ pc = "done" /\ cols > 1 /\ rows > 1
  /\ base_img.height % tile_h # 0
  /\ Len(zip) = cols * rows + 1 /\ skipped = 0

====
